---- MODULE Spec2Model ----
(***************************************************************************)
(* A model of the rutcl crate (crates/rutcl/src/lib.rs): the Chilean RUT   *)
(* value type, its modulo-11 verification digit, parsing, formatting and   *)
(* random generation.                                                      *)
(*                                                                         *)
(* Text is a sequence of one-character strings.  A `Num` is a u32.  TLC's  *)
(* integers are 32-bit signed, so a u32 n is held as the integer with the  *)
(* same 32-bit pattern: n itself when n < 2^31, and n - 2^32 otherwise.    *)
(* Every legal body is therefore held as itself; only the numbers of the   *)
(* upper half of the u32 range are held as negative integers, and the u32  *)
(* operators below compare and divide them as unsigned.                    *)
(***************************************************************************)
EXTENDS Integers, Sequences, FiniteSets, TLC

VARIABLES pc, op, input, output

vars == <<pc, op, input, output>>

(***************************************************************************)
(* u32 arithmetic on the 32-bit pattern                                    *)
(***************************************************************************)

\* a < b as u32
ULt(a, b) == IF (a >= 0) = (b >= 0) THEN a < b ELSE b < 0

\* a <= b as u32
ULe(a, b) == a = b \/ ULt(a, b)

\* n / 10 as u32 (2^32 = 429496729 * 10 + 6)
UDiv10(n) == IF n >= 0 THEN n \div 10 ELSE 429496729 + ((n + 6) \div 10)

\* n % 10 as u32
UMod10(n) == IF n >= 0 THEN n % 10 ELSE (n + 6) % 10

\* n % m as u32, for 0 < m < 2^29 (2^32 = (n + 2^31) + 2147483647 + 1)
URem(n, m) ==
    IF n >= 0 THEN n % m
    ELSE (((n + 2147483647 + 1) % m) + (2147483647 % m) + 1) % m

\* acc.checked_mul(10) followed by checked_add(x) overflows u32
MulAdd10Overflows(acc, x) ==
    acc < 0 \/ acc > 429496729 \/ (acc = 429496729 /\ x > 5)

\* acc * 10 + x as u32, when it does not overflow
MulAdd10(acc, x) ==
    IF acc < 214748364 \/ (acc = 214748364 /\ x <= 7) THEN acc * 10 + x
    ELSE (acc - 429496728) * 10 + (x - 16)

(***************************************************************************)
(* Characters and text                                                     *)
(***************************************************************************)

DigitChars == <<"0", "1", "2", "3", "4", "5", "6", "7", "8", "9">>

IsDigit(c) == \E i \in 1..10 : DigitChars[i] = c

\* char::to_digit(10) of a decimal digit
to_digit(c) == (CHOOSE i \in 1..10 : DigitChars[i] = c) - 1

RECURSIVE Reverse(_)
Reverse(s) == IF s = <<>> THEN <<>> ELSE Append(Reverse(Tail(s)), Head(s))

\* u32::to_string
RECURSIVE to_string(_)
to_string(n) ==
    IF ULt(n, 10) THEN <<DigitChars[n + 1]>>
    ELSE Append(to_string(UDiv10(n)), DigitChars[UMod10(n) + 1])

\* str::parse::<u32>: an optional leading '+', then decimal digits read left
\* to right with checked arithmetic
RECURSIVE ParseDigits(_, _)
ParseDigits(s, acc) ==
    IF s = <<>> THEN [ok |-> TRUE, val |-> acc]
    ELSE IF ~IsDigit(Head(s)) THEN [ok |-> FALSE, err |-> "InvalidDigit"]
    ELSE IF MulAdd10Overflows(acc, to_digit(Head(s)))
         THEN [ok |-> FALSE, err |-> "PosOverflow"]
    ELSE ParseDigits(Tail(s), MulAdd10(acc, to_digit(Head(s))))

parse_Num(s) ==
    IF s = <<>> THEN [ok |-> FALSE, err |-> "Empty"]
    ELSE IF s = <<"+">> \/ s = <<"-">> THEN [ok |-> FALSE, err |-> "InvalidDigit"]
    ELSE IF Head(s) = "+" THEN ParseDigits(Tail(s), 0)
    ELSE ParseDigits(s, 0)

(***************************************************************************)
(* Results and errors                                                      *)
(***************************************************************************)

Ok(v) == [ok |-> TRUE, val |-> v]
Err(e) == [ok |-> FALSE, err |-> e]

InvalidVerificationDigit(have, want) == <<"InvalidVerificationDigit", have, want>>
VerificationDigitOutOfBounds(s) == <<"VerificationDigitOutOfBounds", s>>
NaN(e) == <<"NaN", e>>
OutOfRange == <<"OutOfRange">>
EmptyString == <<"EmptyString">>

\* the String of a sequence of chars
RECURSIVE Joined(_)
Joined(chars) == IF chars = <<>> THEN "" ELSE Head(chars) \o Joined(Tail(chars))

\* Display of the ParseIntError that str::parse::<u32> returns
ParseIntError_to_string(kind) ==
    CASE kind = "Empty" -> "cannot parse integer from empty string"
      [] kind = "InvalidDigit" -> "invalid digit found in string"
      [] kind = "PosOverflow" -> "number too large to fit in target type"

\* Display of Error giving the name of the variant
Error_to_string_variant(e) == e[1]

\* #[error("...")] of enum Error: err.to_string()
Error_to_string(e) ==
    CASE e[1] = "InvalidVerificationDigit" ->
            "Invalid verification digit: have " \o e[2] \o ", want " \o e[3]
      [] e[1] = "VerificationDigitOutOfBounds" ->
            "Verification digit out of bounds found: " \o Joined(e[2])
      [] e[1] = "NaN" ->
            "Provided string is not a number. " \o ParseIntError_to_string(e[2])
      [] e[1] = "OutOfRange" -> "Out of range"
      [] e[1] = "EmptyString" -> "The provided string is empty"

(***************************************************************************)
(* Constants                                                               *)
(***************************************************************************)

MAX_NUM == 99999999
MIN_NUM == 1000000
FACTOR == <<2, 3, 4, 5, 6, 7>>
SYMBOLS == 11

VerificationDigit ==
    {"Zero", "One", "Two", "Three", "Four", "Five", "Six", "Seven", "Eight",
     "Nine", "K"}

\* Rut(Num, VerificationDigit)
Rut(n, v) == <<n, v>>
num(r) == r[1]
vd(r) == r[2]

MIN == Rut(MIN_NUM, "Nine")
MAX == Rut(MAX_NUM, "Nine")

\* RANGE as the half-open MIN_NUM..MAX_NUM
RANGE_contains_exclusive(n) == ULe(MIN_NUM, n) /\ ULt(n, MAX_NUM)

\* RANGE.contains(&num), RANGE = MIN_NUM..=MAX_NUM
RANGE_contains(n) == ULe(MIN_NUM, n) /\ ULe(n, MAX_NUM)

(***************************************************************************)
(* VerificationDigit                                                       *)
(***************************************************************************)

from_u32(value) ==
    CASE value = 1 -> Ok("One")
      [] value = 2 -> Ok("Two")
      [] value = 3 -> Ok("Three")
      [] value = 4 -> Ok("Four")
      [] value = 5 -> Ok("Five")
      [] value = 6 -> Ok("Six")
      [] value = 7 -> Ok("Seven")
      [] value = 8 -> Ok("Eight")
      [] value = 9 -> Ok("Nine")
      [] value = 10 -> Ok("K")
      [] value = 11 -> Ok("Zero")
      [] OTHER -> Err(VerificationDigitOutOfBounds(to_string(value)))

to_u32(d) ==
    CASE d = "Zero" -> 0
      [] d = "One" -> 1
      [] d = "Two" -> 2
      [] d = "Three" -> 3
      [] d = "Four" -> 4
      [] d = "Five" -> 5
      [] d = "Six" -> 6
      [] d = "Seven" -> 7
      [] d = "Eight" -> 8
      [] d = "Nine" -> 9
      [] d = "K" -> 10

\* the loop of VerificationDigit::new over the reversed digits
RECURSIVE WeightedSum(_, _, _)
WeightedSum(digits, factor, sum) ==
    IF digits = <<>> THEN sum
    ELSE WeightedSum(Tail(digits), (factor + 1) % 6,
                     sum + Head(digits) * FACTOR[factor + 1])

\* VerificationDigit::new with the digits left in reading order
VerificationDigit_new_unreversed(n) ==
    LET chars == to_string(n)
        digits == [i \in 1..Len(chars) |-> to_digit(chars[i])]
        sum == WeightedSum(digits, 0, 0)
        whole == sum \div SYMBOLS
        base == sum - (SYMBOLS * whole)
        digit == SYMBOLS - base
    IN  from_u32(digit)

\* `sum` of VerificationDigit::new once its loop is over
new_sum(n) ==
    LET chars == Reverse(to_string(n))
        digits == [i \in 1..Len(chars) |-> to_digit(chars[i])]
    IN  WeightedSum(digits, 0, 0)

\* `digit` of VerificationDigit::new taken to be `base`
new_digit_base(n) ==
    LET sum == new_sum(n)
        whole == sum \div SYMBOLS
    IN  sum - (SYMBOLS * whole)

\* `digit` of VerificationDigit::new
new_digit(n) ==
    LET sum == new_sum(n)
        whole == sum \div SYMBOLS
        base == sum - (SYMBOLS * whole)
    IN  SYMBOLS - base

VerificationDigit_new(n) == from_u32(new_digit(n))

\* TryFrom<char> without the lowercase 'k'
try_from_char_uppercase(value) ==
    CASE value = "0" -> Ok("Zero")
      [] value = "1" -> Ok("One")
      [] value = "2" -> Ok("Two")
      [] value = "3" -> Ok("Three")
      [] value = "4" -> Ok("Four")
      [] value = "5" -> Ok("Five")
      [] value = "6" -> Ok("Six")
      [] value = "7" -> Ok("Seven")
      [] value = "8" -> Ok("Eight")
      [] value = "9" -> Ok("Nine")
      [] value = "K" -> Ok("K")
      [] OTHER -> Err(VerificationDigitOutOfBounds(<<value>>))

\* impl TryFrom<char> for VerificationDigit
try_from_char(value) ==
    CASE value = "0" -> Ok("Zero")
      [] value = "1" -> Ok("One")
      [] value = "2" -> Ok("Two")
      [] value = "3" -> Ok("Three")
      [] value = "4" -> Ok("Four")
      [] value = "5" -> Ok("Five")
      [] value = "6" -> Ok("Six")
      [] value = "7" -> Ok("Seven")
      [] value = "8" -> Ok("Eight")
      [] value = "9" -> Ok("Nine")
      [] value = "K" \/ value = "k" -> Ok("K")
      [] OTHER -> Err(VerificationDigitOutOfBounds(<<value>>))

\* From<VerificationDigit> for char giving a lowercase k for K
into_char_lowercase_k(val) ==
    CASE val = "Zero" -> "0"
      [] val = "One" -> "1"
      [] val = "Two" -> "2"
      [] val = "Three" -> "3"
      [] val = "Four" -> "4"
      [] val = "Five" -> "5"
      [] val = "Six" -> "6"
      [] val = "Seven" -> "7"
      [] val = "Eight" -> "8"
      [] val = "Nine" -> "9"
      [] val = "K" -> "k"

\* impl From<VerificationDigit> for char
into_char(val) ==
    CASE val = "Zero" -> "0"
      [] val = "One" -> "1"
      [] val = "Two" -> "2"
      [] val = "Three" -> "3"
      [] val = "Four" -> "4"
      [] val = "Five" -> "5"
      [] val = "Six" -> "6"
      [] val = "Seven" -> "7"
      [] val = "Eight" -> "8"
      [] val = "Nine" -> "9"
      [] val = "K" -> "K"

\* impl FromStr for VerificationDigit
vd_from_str(text) ==
    CASE text = <<"0">> -> Ok("Zero")
      [] text = <<"1">> -> Ok("One")
      [] text = <<"2">> -> Ok("Two")
      [] text = <<"3">> -> Ok("Three")
      [] text = <<"4">> -> Ok("Four")
      [] text = <<"5">> -> Ok("Five")
      [] text = <<"6">> -> Ok("Six")
      [] text = <<"7">> -> Ok("Seven")
      [] text = <<"8">> -> Ok("Eight")
      [] text = <<"9">> -> Ok("Nine")
      [] text = <<"K">> -> Ok("K")
      [] OTHER -> Err(VerificationDigitOutOfBounds(text))

\* impl TryFrom<char> for VerificationDigit of the legacy copy src/src/lib.rs
legacy_try_from_char(value) ==
    CASE value = "0" -> Ok("Zero")
      [] value = "1" -> Ok("One")
      [] value = "2" -> Ok("Two")
      [] value = "3" -> Ok("Three")
      [] value = "4" -> Ok("Four")
      [] value = "5" -> Ok("Five")
      [] value = "6" -> Ok("Six")
      [] value = "7" -> Ok("Seven")
      [] value = "8" -> Ok("Eight")
      [] value = "9" -> Ok("Nine")
      [] value = "K" -> Ok("K")
      [] OTHER -> Err(VerificationDigitOutOfBounds(<<value>>))

\* impl Display for VerificationDigit
vd_to_string(d) ==
    CASE d = "Zero" -> <<"0">>
      [] d = "One" -> <<"1">>
      [] d = "Two" -> <<"2">>
      [] d = "Three" -> <<"3">>
      [] d = "Four" -> <<"4">>
      [] d = "Five" -> <<"5">>
      [] d = "Six" -> <<"6">>
      [] d = "Seven" -> <<"7">>
      [] d = "Eight" -> <<"8">>
      [] d = "Nine" -> <<"9">>
      [] d = "K" -> <<"K">>

(***************************************************************************)
(* Rut                                                                     *)
(***************************************************************************)

Formats == {"Sans", "Dash", "Dots"}

\* the loop of Format::Dots splitting off the last 3 chars only
DotsLoop_once(chars, result) ==
    IF Len(chars) <= 3 THEN chars
    ELSE SubSeq(chars, 1, Len(chars) - 3) \o <<".">>
            \o SubSeq(chars, Len(chars) - 2, Len(chars))

\* the while loop of Format::Dots: split the last (up to) 3 chars off
RECURSIVE DotsLoop(_, _)
DotsLoop(chars, result) ==
    IF chars = <<>> THEN result
    ELSE LET at == IF Len(chars) >= 3 THEN Len(chars) - 3 ELSE 0
             chunk == SubSeq(chars, at + 1, Len(chars))
             rest == SubSeq(chars, 1, at)
         IN  IF result = <<>> THEN DotsLoop(rest, chunk)
             ELSE DotsLoop(rest, chunk \o <<".">> \o result)

\* Rut::format writing the verification digit as its number (10 for K)
Rut_format_numeric_vd(self, fmt) ==
    CASE fmt = "Sans" -> to_string(num(self)) \o to_string(to_u32(vd(self)))
      [] fmt = "Dash" ->
            to_string(num(self)) \o <<"-">> \o to_string(to_u32(vd(self)))
      [] fmt = "Dots" ->
            DotsLoop(to_string(num(self)), <<>>) \o <<"-">>
                \o to_string(to_u32(vd(self)))

Rut_format(self, fmt) ==
    CASE fmt = "Sans" -> to_string(num(self)) \o vd_to_string(vd(self))
      [] fmt = "Dash" -> to_string(num(self)) \o <<"-">> \o vd_to_string(vd(self))
      [] fmt = "Dots" ->
            DotsLoop(to_string(num(self)), <<>>) \o <<"-">> \o vd_to_string(vd(self))

\* Display for Rut writing "{}-{}" of the body and the verification digit
Rut_to_string_dash(self) == Rut_format(self, "Dash")

\* impl Display for Rut: write!(f, "{}", self.format(Format::Sans))
Rut_to_string(self) == Rut_format(self, "Sans")

\* Rut::sans replacing the first '.' or '-' alone
sans_first_only(text) ==
    LET at == {i \in 1..Len(text) : text[i] = "." \/ text[i] = "-"}
    IN  IF at = {} THEN text
        ELSE LET first == CHOOSE i \in at : \A j \in at : i <= j
             IN  SubSeq(text, 1, first - 1) \o SubSeq(text, first + 1, Len(text))

\* Rut::sans replacing the dots alone
sans_dots_only(text) == SelectSeq(text, LAMBDA c : c # ".")

\* Rut::sans: input.replace(['.', '-'], "")
sans(text) == SelectSeq(text, LAMBDA c : c # "." /\ c # "-")

\* impl TryFrom<Num> for Rut
Rut_try_from(n) ==
    IF RANGE_contains(n)
    THEN LET v == VerificationDigit_new(n)
         IN  IF v.ok THEN Ok(Rut(n, v.val)) ELSE v
    ELSE Err(OutOfRange)

\* FromStrPopped without the comparison of the two verification digits
FromStrPopped_unmatched(chars, input_vd) ==
    LET parsed == parse_Num(chars)
    IN  IF ~parsed.ok THEN Err(NaN(parsed.err))
        ELSE LET want == Rut_try_from(parsed.val)
             IN  IF ~want.ok THEN want
                 ELSE LET have == try_from_char(input_vd)
                      IN  IF ~have.ok THEN have ELSE want

\* from_str converting the popped char before it tests the range
FromStrPopped_vd_first(chars, input_vd) ==
    LET parsed == parse_Num(chars)
    IN  IF ~parsed.ok THEN Err(NaN(parsed.err))
        ELSE LET have == try_from_char(input_vd)
             IN  IF ~have.ok THEN have
                 ELSE LET want == Rut_try_from(parsed.val)
                      IN  IF ~want.ok THEN want
                          ELSE IF vd(want.val) = have.val THEN want
                          ELSE Err(InvalidVerificationDigit(
                                   input_vd, into_char(vd(want.val))))

\* impl FromStr for Rut, after the last char was popped off the stripped
\* input: chars is what is left and input_vd the popped char
FromStrPopped(chars, input_vd) ==
    LET parsed == parse_Num(chars)
    IN  IF ~parsed.ok THEN Err(NaN(parsed.err))
        ELSE LET want == Rut_try_from(parsed.val)
             IN  IF ~want.ok THEN want
                 ELSE LET have == try_from_char(input_vd)
                      IN  IF ~have.ok THEN have
                          ELSE IF vd(want.val) = have.val THEN want
                          ELSE Err(InvalidVerificationDigit(
                                   input_vd, into_char(vd(want.val))))

\* from_str testing the input, not the stripped input, for emptiness
Rut_from_str_empty_unstripped(text) ==
    LET chars == sans(text)
    IN  IF text = <<>> THEN Err(EmptyString)
        ELSE IF chars = <<>> THEN Err(NaN("Empty"))
        ELSE FromStrPopped(SubSeq(chars, 1, Len(chars) - 1), chars[Len(chars)])

\* impl FromStr for Rut
Rut_from_str(text) ==
    LET chars == sans(text)
    IN  IF chars = <<>> THEN Err(EmptyString)
        ELSE FromStrPopped(SubSeq(chars, 1, Len(chars) - 1), chars[Len(chars)])

\* serde::de::Error::custom(msg)
custom(msg) == <<"custom", msg>>

\* impl Serialize for Rut: serializer.serialize_str(&self.format(Format::Sans))
Rut_serialize(self) == Rut_format(self, "Sans")

\* RutVisitor::visit_str reporting every failure as "invalid value"
visit_str_opaque(v) ==
    LET parsed == Rut_from_str(v)
    IN  IF parsed.ok THEN parsed ELSE Err(custom("invalid value"))

\* RutVisitor::visit_str (visit_string is the same on v.as_str()):
\* Rut::from_str(v).map_err(|err| E::custom(err.to_string()))
visit_str(v) ==
    LET parsed == Rut_from_str(v)
    IN  IF parsed.ok THEN parsed ELSE Err(custom(Error_to_string(parsed.err)))

\* impl Deserialize for Rut: deserializer.deserialize_str(RutVisitor)
Rut_deserialize(v) == visit_str(v)

\* rut_is_valid passing the failure of from_str on as its error
rut_is_valid_propagating(text) ==
    LET parsed == Rut_from_str(text)
    IN  IF parsed.ok THEN Ok(TRUE) ELSE Err(Error_to_string(parsed.err))

\* sdf-pkg rut_is_valid: Ok(true) if Rut::from_str(&input).is_ok(), else
\* Ok(false)
rut_is_valid(text) ==
    IF Rut_from_str(text).ok THEN Ok(TRUE) ELSE Ok(FALSE)

\* sdf-pkg rut_format_sans:
\* Ok(Rut::from_str(&input).map_err(|err| err.to_string())?.format(Format::Sans))
rut_format_sans(text) ==
    LET parsed == Rut_from_str(text)
    IN  IF ~parsed.ok THEN Err(Error_to_string(parsed.err))
        ELSE Ok(Rut_format(parsed.val, "Sans"))

\* rut_format_dash formatting the Rut of a failed from_str as an empty text
rut_format_dash_lenient(text) ==
    LET parsed == Rut_from_str(text)
    IN  IF ~parsed.ok THEN Ok(<<>>)
        ELSE Ok(Rut_format(parsed.val, "Dash"))

\* sdf-pkg rut_format_dash
rut_format_dash(text) ==
    LET parsed == Rut_from_str(text)
    IN  IF ~parsed.ok THEN Err(Error_to_string(parsed.err))
        ELSE Ok(Rut_format(parsed.val, "Dash"))

\* sdf-pkg rut_format_dots
rut_format_dots(text) ==
    LET parsed == Rut_from_str(text)
    IN  IF ~parsed.ok THEN Err(Error_to_string(parsed.err))
        ELSE Ok(Rut_format(parsed.val, "Dots"))

\* impl FromStr for Rut of the legacy copy src/src/lib.rs; its sans, RANGE,
\* TryFrom<Num> and VerificationDigit::new are those of the crate
legacy_from_str(text) ==
    LET chars == sans(text)
    IN  IF chars = <<>> THEN Err(EmptyString)
        ELSE LET input_vd == chars[Len(chars)]
                 parsed == parse_Num(SubSeq(chars, 1, Len(chars) - 1))
             IN  IF ~parsed.ok THEN Err(NaN(parsed.err))
                 ELSE LET want == Rut_try_from(parsed.val)
                      IN  IF ~want.ok THEN want
                          ELSE LET have == legacy_try_from_char(input_vd)
                               IN  IF ~have.ok THEN have
                                   ELSE IF vd(want.val) = have.val THEN want
                                   ELSE Err(InvalidVerificationDigit(
                                            input_vd, into_char(vd(want.val))))

\* Rut::random taking the verification digit of the hash, not of num
Rut_random_vd_of_hash(hash) ==
    LET n == URem(hash, MAX_NUM)
        v == VerificationDigit_new(hash)
    IN  IF v.ok THEN Ok(Rut(n, v.val)) ELSE v

\* Ord for Rut comparing the verification digits before the bodies
Rut_cmp_vd_first(self, other) ==
    IF to_u32(vd(self)) > to_u32(vd(other)) THEN "Greater"
    ELSE IF to_u32(vd(other)) > to_u32(vd(self)) THEN "Less"
    ELSE IF ULt(other[1], self[1]) THEN "Greater"
    ELSE IF ULt(self[1], other[1]) THEN "Less"
    ELSE "Equal"

\* impl Ord for Rut: cmp compares self.0 and other.0, two u32
Rut_cmp(self, other) ==
    IF ULt(other[1], self[1]) THEN "Greater"
    ELSE IF ULt(self[1], other[1]) THEN "Less"
    ELSE "Equal"

\* impl PartialOrd for Rut: Some(self.cmp(other)), Some(x) held as <<x>>
Rut_partial_cmp(self, other) == <<Rut_cmp(self, other)>>

\* self < other and self > other, which PartialOrd derives from partial_cmp
Rut_lt(self, other) == Rut_partial_cmp(self, other) = <<"Less">>

Rut_gt(self, other) == Rut_partial_cmp(self, other) = <<"Greater">>

\* derived PartialEq comparing the verification digits alone
Rut_eq_vd_only(self, other) == self[2] = other[2]

\* #[derive(PartialEq, Eq)] on struct Rut(Num, VerificationDigit): both
\* fields are equal
Rut_eq(self, other) == self[1] = other[1] /\ self[2] = other[2]

\* Rut::random without the reduction modulo MAX_NUM
Rut_random_unreduced(hash) ==
    LET n == hash
        v == VerificationDigit_new(n)
    IN  IF v.ok THEN Ok(Rut(n, v.val)) ELSE v

\* Rut::random; hash is `hasher.finish() as u32`
Rut_random(hash) ==
    LET n == URem(hash, MAX_NUM)
        v == VerificationDigit_new(n)
    IN  IF v.ok THEN Ok(Rut(n, v.val)) ELSE v

\* a range lo..hi or lo..=hi of u32
Range(lo, hi, inclusive) == [lo |-> lo, hi |-> hi, inclusive |-> inclusive]

Range_is_empty(range) ==
    IF range.inclusive THEN ~ULe(range.lo, range.hi) ELSE ~ULt(range.lo, range.hi)

Range_contains(range, n) ==
    /\ ULe(range.lo, n)
    /\ IF range.inclusive THEN ULe(n, range.hi) ELSE ULt(n, range.hi)

Panic == [ok |-> FALSE, panic |-> TRUE]

\* Rut::random_in_range taking the verification digit of the start of the
\* range, not of the number drawn
Rut_random_in_range_vd_of_lo(range, drawn) ==
    IF Range_is_empty(range) THEN Panic
    ELSE LET v == VerificationDigit_new(range.lo)
         IN  IF v.ok THEN Ok(Rut(drawn, v.val)) ELSE v

\* Rut::random_in_range; drawn is what gen_range returns for a non-empty
\* range, and gen_range panics on an empty one
Rut_random_in_range(range, drawn) ==
    IF Range_is_empty(range) THEN Panic
    ELSE LET v == VerificationDigit_new(drawn)
         IN  IF v.ok THEN Ok(Rut(drawn, v.val)) ELSE v

(***************************************************************************)
(* Inputs                                                                  *)
(***************************************************************************)

\* bodies are drawn Window below and above each end of the legal range
Window == 12

\* short texts are all the texts over ShortAlphabet of at most this length
MaxShortLen == 2

\* the bodies the tests of the crate use
TestNums ==
    {75303649, 27388094, 27962409, 98127523, 30686957, 45022275, 61570639,
     59608778, 43496204, 70059381, 92635843, 17951585, 15441715, 1111111,
     1326658, 29718958, 30088687}

\* the ends of the u32 range (4294967295 and 2147483648 as 32-bit patterns)
EdgeNums == {0, 1, 9, 10, 12345, 100000000, 200000000, 2147483647,
             -2147483647 - 1, -1}

Nums ==
    TestNums \cup EdgeNums
        \cup ((MIN_NUM - Window)..(MIN_NUM + Window))
        \cup ((MAX_NUM - Window)..(MAX_NUM + Window))

\* the last character typed: the legal check symbols and two illegal ones
TypedChars == {"0", "1", "2", "3", "4", "5", "6", "7", "8", "9", "K", "k", "x"}

Prefixes == {<<>>, <<"0">>, <<"+">>}

TestTexts ==
    {<<"1", "7", ".", "9", "5", "1", ".", "5", "8", "5", "-", "7">>,
     <<"1", "7", "9", "5", "1", "5", "8", "5", "-", "7">>,
     <<"1", "7", "9", "5", "1", "5", "8", "5", "7">>,
     <<"1", ".", "1", "1", "1", ".", "1", "1", "1", "-", "1">>,
     <<"1", "5", "4", "4", "1", "7", "1", "5", "-", "k">>,
     <<"1", "5", "4", "4", "1", "7", "1", "5", "-", "K">>,
     <<"T", "h", "i", "s", "I", "s", "N", "o", "t", "A", "R", "u", "t">>,
     <<"9", "9", "9", "9", "9", "9", "9", "9", "9", "9", "9", "-", "9">>,
     <<"4", "2", "9", "4", "9", "6", "7", "2", "9", "5", "-", "9">>,
     <<"4", "2", "9", "4", "9", "6", "7", "2", "9", "6", "-", "9">>,
     <<"1", ".", "0", ".", "0", ".", "0", ".", "0", ".", "0", ".", "0", "-", "9">>,
     <<"-", ".", "-">>,
     <<"+", "1", "0", "0", "0", "0", "0", "0", "-", "9">>,
     <<"0", "1", "0", "0", "0", "0", "0", "0", "9">>}

ShortAlphabet == {"0", "1", "9", "K", "k", ".", "-", "+", "x"}

ShortTexts ==
    UNION {[1..n -> ShortAlphabet] : n \in 0..MaxShortLen}

Texts ==
    TestTexts \cup ShortTexts
        \cup {p \o to_string(n) \o <<c>> : p \in Prefixes, n \in Nums, c \in TypedChars}

\* the values of `hasher.finish() as u32` tried
Hashes == Nums

Ranges ==
    {Range(0, 10, FALSE), Range(99999990, 200000000, FALSE),
     Range(10000000, 15000000, FALSE), Range(10000000, 15000000, TRUE),
     Range(MIN_NUM, MAX_NUM, TRUE), Range(MIN_NUM, MAX_NUM, FALSE),
     Range(0, -1, TRUE), Range(5, 5, FALSE), Range(5, 5, TRUE),
     Range(10, 5, TRUE), Range(10, 5, FALSE)}

\* the values gen_range may return, among those tried: the ends of the range,
\* their neighbours, and the bodies of Nums that lie in it
Draws(range) ==
    {n \in {range.lo, range.lo + 1, range.hi - 1, range.hi} \cup Nums :
        Range_contains(range, n)}

\* the texts the tests compares_ruts and compares_equal_ruts parse
CmpTexts ==
    {<<"1", "3", "2", "6", "6", "5", "8", "-", "1">>,
     <<"1", "5", "4", "4", "1", "7", "1", "5", "-", "K">>,
     <<"2", "9", "7", "1", "8", "9", "5", "8", "-", "1">>,
     <<"3", "0", "0", "8", "8", "6", "8", "7", "-", "6">>,
     <<"4", "5", "2", "7", "8", "6", "5", "7", "-", "5">>,
     <<"5", "8", "1", "7", "5", "0", "1", "9", "-", "6">>,
     <<"6", "3", "9", "9", "0", "3", "8", "6", "-", "9">>,
     <<"7", "7", "9", "9", "2", "9", "2", "6", "-", "4">>,
     <<"8", "0", "9", "1", "9", "7", "6", "6", "-", "2">>,
     <<"9", "4", "5", "7", "7", "4", "3", "0", "-", "4">>}

\* the values returned with Ok of a set of Results
Unwrapped(results) == {r.val : r \in {x \in results : x.ok}}

\* Ruts to compare, each one returned by a constructor of the library
Ruts ==
    {MIN, MAX}
        \cup Unwrapped({Rut_from_str(t) : t \in CmpTexts})
        \cup Unwrapped({Rut_try_from(n) : n \in TestNums \cup {MIN_NUM + 1, MAX_NUM - 1}})
        \cup Unwrapped({Rut_random(hash) : hash \in EdgeNums})
        \cup Unwrapped({Rut_random_in_range(Range(0, -1, TRUE), drawn) : drawn \in EdgeNums})

\* the numbers tried as the value of a verification digit: those of the
\* match of from_u32, their neighbours and the ends of the u32 range
DigitNums == (0..12) \cup EdgeNums

\* the characters tried as a verification digit: the arms of the match of
\* TryFrom<char> and characters of its default arm
CharInputs == TypedChars \cup {".", "-", "+", " ", "a", "A", "J", "L", "j", "l", ":", "/"}

\* the strings tried as a verification digit: each char of CharInputs as a
\* string, the empty string and a string of two chars
DigitTexts == {<<c>> : c \in CharInputs} \cup {<<>>, <<"1", "0">>}

\* successive calls of random and of random_in_range, as the tests
\* random_never_repeats and generates_random_in_range make them (100 there)
MaxDraws == 3

\* the values of `hasher.finish() as u32` tried in successive calls
LoopHashes == {0, 1, 12345, 99999999, 100000000}

\* the range generates_random_in_range draws from
LoopRange == Range(10000000, 15000000, FALSE)

(***************************************************************************)
(* The library as a state machine.  The library keeps no state of its own: *)
(* the state is one call of a public operation, from the moment it is made *)
(* (pc = "call": op and input are the operation and its argument) to its   *)
(* return (pc = "return": output is what it returned).  A caller may go on *)
(* to format the Rut a call returned and to parse the text format returned.*)
(***************************************************************************)

Constructors == {"min", "max", "try_from", "from_str", "random", "random_in_range"}

None == <<>>

Calls ==
    {<<"min", None>>, <<"max", None>>, <<"random", None>>}
        \cup {<<"new", n>> : n \in Nums}
        \cup {<<"try_from", n>> : n \in Nums}
        \cup {<<"from_str", text>> : text \in Texts}
        \cup {<<"sans", text>> : text \in Texts}
        \cup {<<"random_in_range", range>> : range \in Ranges}
        \cup {<<"random_loop", <<>>>>, <<"random_in_range_loop", <<>>>>}
        \cup {<<"from_u32", n>> : n \in DigitNums}
        \cup {<<"deserialize", text>> : text \in Texts}
        \cup {<<"legacy_from_str", text>> : text \in Texts}
        \cup {<<"vd_from_str", text>> : text \in DigitTexts}
        \cup {<<o, text>> : o \in {"rut_is_valid", "rut_format_sans", "rut_format_dash",
                                   "rut_format_dots"}, text \in Texts}
        \cup {<<"try_from_char", c>> : c \in CharInputs}
        \cup {<<"into_char", d>> : d \in VerificationDigit}
        \cup {<<"to_u32", d>> : d \in VerificationDigit}
        \cup {<<o, <<a, b>>>> : o \in {"cmp", "lt", "gt", "eq"}, a \in Ruts, b \in Ruts}

\* the last call returned a Rut
HoldsRut == pc = "return" /\ op \in Constructors /\ output.ok

Init ==
    /\ pc = "call"
    /\ \E call \in Calls : op = call[1] /\ input = call[2]
    /\ output = None

Return(value) ==
    /\ pc' = "return"
    /\ output' = value
    /\ UNCHANGED <<op, input>>

\* Rut::min()
Min == pc = "call" /\ op = "min" /\ Return(Ok(MIN))

\* Rut::max()
Max == pc = "call" /\ op = "max" /\ Return(Ok(MAX))

\* VerificationDigit::new(num)
New == pc = "call" /\ op = "new" /\ Return(VerificationDigit_new(input))

\* Rut::try_from(num)
TryFrom == pc = "call" /\ op = "try_from" /\ Return(Rut_try_from(input))

\* Rut::from_str(input)
FromStr == pc = "call" /\ op = "from_str" /\ Return(Rut_from_str(input))

\* Rut::sans(input)
Sans == pc = "call" /\ op = "sans" /\ Return(sans(input))

\* Rut::random()
Random ==
    /\ pc = "call" /\ op = "random"
    /\ \E hash \in Hashes : Return(Rut_random(hash))

\* Rut::random_in_range(range)
RandomInRange ==
    /\ pc = "call" /\ op = "random_in_range"
    /\ IF Range_is_empty(input)
       THEN Return(Rut_random_in_range(input, input.lo))
       ELSE \E drawn \in Draws(input) : Return(Rut_random_in_range(input, drawn))

\* one more Rut::random() of a run of successive calls: input is the
\* values the hasher gave so far, output what the calls returned
RandomLoop ==
    /\ op = "random_loop"
    /\ Len(output) < MaxDraws
    /\ \E hash \in LoopHashes :
        /\ pc' = "return"
        /\ input' = Append(input, hash)
        /\ output' = Append(output, Rut_random(hash))
        /\ UNCHANGED op

\* one more Rut::random_in_range(10_000_000..15_000_000) of a run of
\* successive calls: input is the numbers gen_range drew so far, output
\* what the calls returned
RandomInRangeLoop ==
    /\ op = "random_in_range_loop"
    /\ Len(output) < MaxDraws
    /\ \E drawn \in Draws(LoopRange) :
        /\ pc' = "return"
        /\ input' = Append(input, drawn)
        /\ output' = Append(output, Rut_random_in_range(LoopRange, drawn))
        /\ UNCHANGED op

\* VerificationDigit::from_u32(value)
FromU32 == pc = "call" /\ op = "from_u32" /\ Return(from_u32(input))

\* vd.to_u32()
ToU32 == pc = "call" /\ op = "to_u32" /\ Return(to_u32(input))

\* VerificationDigit::try_from(value), of a char
TryFromChar == pc = "call" /\ op = "try_from_char" /\ Return(try_from_char(input))

\* char::from(vd)
IntoChar == pc = "call" /\ op = "into_char" /\ Return(into_char(input))

\* a.cmp(&b)
Cmp == pc = "call" /\ op = "cmp" /\ Return(Rut_cmp(input[1], input[2]))

\* a < b
Lt == pc = "call" /\ op = "lt" /\ Return(Rut_lt(input[1], input[2]))

\* a > b
Gt == pc = "call" /\ op = "gt" /\ Return(Rut_gt(input[1], input[2]))

\* a == b
Eq == pc = "call" /\ op = "eq" /\ Return(Rut_eq(input[1], input[2]))

\* rut.format(fmt), of the Rut the last call returned
Format ==
    /\ HoldsRut
    /\ \E fmt \in Formats :
        /\ pc' = "return"
        /\ op' = "format"
        /\ input' = <<output.val, fmt>>
        /\ output' = Rut_format(output.val, fmt)

\* rut.to_string(), of the Rut the last call returned
Display ==
    /\ HoldsRut
    /\ pc' = "return"
    /\ op' = "to_string"
    /\ input' = output.val
    /\ output' = Rut_to_string(output.val)

\* VerificationDigit::from_str(text)
VdFromStr == pc = "call" /\ op = "vd_from_str" /\ Return(vd_from_str(input))

\* Rut::from_str(text) of the legacy copy
LegacyFromStr == pc = "call" /\ op = "legacy_from_str" /\ Return(legacy_from_str(input))

\* rut_is_valid(input)
RutIsValid == pc = "call" /\ op = "rut_is_valid" /\ Return(rut_is_valid(input))

\* rut_format_sans(input)
RutFormatSans == pc = "call" /\ op = "rut_format_sans" /\ Return(rut_format_sans(input))

\* rut_format_dash(input)
RutFormatDash == pc = "call" /\ op = "rut_format_dash" /\ Return(rut_format_dash(input))

\* rut_format_dots(input)
RutFormatDots == pc = "call" /\ op = "rut_format_dots" /\ Return(rut_format_dots(input))

\* rut.serialize(..), of the Rut the last call returned
Serialize ==
    /\ HoldsRut
    /\ pc' = "return"
    /\ op' = "serialize"
    /\ input' = output.val
    /\ output' = Rut_serialize(output.val)

\* Rut::deserialize of the string text
Deserialize == pc = "call" /\ op = "deserialize" /\ Return(Rut_deserialize(input))

\* Rut::deserialize of the string the last serialize wrote
DeserializeSerialized ==
    /\ pc = "return" /\ op = "serialize"
    /\ pc' = "return"
    /\ op' = "deserialize"
    /\ input' = output
    /\ output' = Rut_deserialize(output)

\* Rut::from_str(text), of the text the last format returned
FromStrFormatted ==
    /\ pc = "return" /\ op = "format"
    /\ pc' = "return"
    /\ op' = "from_str"
    /\ input' = output
    /\ output' = Rut_from_str(output)

Next ==
    \/ New
    \/ Min
    \/ Max
    \/ TryFrom
    \/ FromStr
    \/ Sans
    \/ Random
    \/ RandomInRange
    \/ FromU32
    \/ ToU32
    \/ TryFromChar
    \/ IntoChar
    \/ Cmp
    \/ Lt
    \/ Gt
    \/ Eq
    \/ RandomLoop
    \/ RandomInRangeLoop
    \/ VdFromStr
    \/ LegacyFromStr
    \/ RutIsValid
    \/ RutFormatSans
    \/ RutFormatDash
    \/ RutFormatDots
    \/ Serialize
    \/ Deserialize
    \/ DeserializeSerialized
    \/ Format
    \/ Display
    \/ FromStrFormatted

Spec == Init /\ [][Next]_vars

(***************************************************************************)
(* The vocabulary of the claims                                            *)
(***************************************************************************)

Decoration == {".", "-"}

LegalSymbols == {"0", "1", "2", "3", "4", "5", "6", "7", "8", "9", "K", "k"}

DigitValue ==
    "0" :> 0 @@ "1" :> 1 @@ "2" :> 2 @@ "3" :> 3 @@ "4" :> 4 @@ "5" :> 5
        @@ "6" :> 6 @@ "7" :> 7 @@ "8" :> 8 @@ "9" :> 9

\* s is a non-empty string of decimal digits
IsNumeral(s) == s # <<>> /\ \A i \in 1..Len(s) : s[i] \in DOMAIN DigitValue

RECURSIVE DropZeros(_)
DropZeros(s) ==
    IF Len(s) > 1 /\ Head(s) = "0" THEN DropZeros(Tail(s)) ELSE s

\* the number a numeral of at most 9 digits denotes
RECURSIVE NumeralValue(_)
NumeralValue(s) ==
    IF s = <<>> THEN 0
    ELSE NumeralValue(SubSeq(s, 1, Len(s) - 1)) * 10 + DigitValue[s[Len(s)]]

\* s is a numeral of a number in [1,000,000, 99,999,999]: 7 or 8 digits
\* once its leading zeros are dropped
IsLegalNumeral(s) == IsNumeral(s) /\ Len(DropZeros(s)) \in {7, 8}

\* n, a u32, is in [1,000,000, 99,999,999]
LegalBody(n) == n >= 1000000 /\ n <= 99999999

\* SUM d_i * WEIGHTS[i mod 6] over the decimal digits of n from digit i on,
\* with WEIGHTS[j] = 2 + j
RECURSIVE RefSum(_, _)
RefSum(n, i) ==
    IF n = 0 THEN 0 ELSE (n % 10) * (2 + (i % 6)) + RefSum(n \div 10, i + 1)

\* the same sum for any u32
RefSumU32(n) == IF n >= 0 THEN RefSum(n, 0) ELSE UMod10(n) * 2 + RefSum(UDiv10(n), 1)

\* the character of the modulo-11 check symbol of n
RefCheckChar(n) ==
    LET d == 11 - (RefSumU32(n) % 11)
    IN  IF d = 11 THEN "0" ELSE IF d = 10 THEN "K" ELSE DigitChars[d + 1]

\* the check symbol c denotes the verification digit d
Denotes(c, d) == c = into_char(d) \/ (c = "k" /\ d = "K")

Returned(name) == pc = "return" /\ op = name

(***************************************************************************)
(* Claims                                                                  *)
(***************************************************************************)

\* C1: parse validates the check symbol.  When the stripped text is the
\* numeral of a body in [1,000,000, 99,999,999] followed by a legal check
\* symbol c, from_str returns Rut(body, new(body)) if c denotes new(body),
\* and otherwise InvalidVerificationDigit with have = c as typed and want =
\* the canonical character of new(body); "1.111.111-1" gives have '1',
\* want '4'.
C1_ParseValidatesCheckSymbol ==
    Returned("from_str") =>
        LET s == sans(input)
            digits == SubSeq(s, 1, Len(s) - 1)
            c == s[Len(s)]
        IN  /\ (Len(s) >= 2 /\ IsLegalNumeral(digits) /\ c \in LegalSymbols) =>
                    LET body == NumeralValue(DropZeros(digits))
                        d == VerificationDigit_new(body).val
                    IN  output = IF Denotes(c, d) THEN Ok(Rut(body, d))
                                 ELSE Err(InvalidVerificationDigit(c, into_char(d)))
            /\ input = <<"1", ".", "1", "1", "1", ".", "1", "1", "1", "-", "1">> =>
                    output = Err(InvalidVerificationDigit("1", "4"))

C1_Witness ==
    /\ Returned("from_str")
    /\ input = <<"1", ".", "1", "1", "1", ".", "1", "1", "1", "-", "1">>
    /\ output = Err(InvalidVerificationDigit("1", "4"))

C3_FromBodyRange ==
    Returned("try_from") =>
        /\ output.ok <=> LegalBody(input)
        /\ output.ok => output.val = Rut(input, VerificationDigit_new(input).val)
        /\ ~output.ok => output = Err(OutOfRange)
        /\ input \in {1000000, 99999999} => output = Ok(Rut(input, "Nine"))
        /\ input \in {999999, 100000000} => output = Err(OutOfRange)

C3_Witness ==
    /\ Returned("try_from")
    /\ input = 99999999
    /\ output = Ok(Rut(99999999, "Nine"))

\* C4: round trip.  For every Rut r with body in [1,000,000, 99,999,999]
\* and every format (Sans, Dash, Dots), from_str of the text r.format
\* returned succeeds and returns r.
C4_RoundTrip ==
    [][(/\ Returned("format")
        /\ op' = "from_str"
        /\ LegalBody(num(input[1])))
          => output' = Ok(input[1])]_vars

C4_Witness ==
    /\ Returned("from_str")
    /\ input = <<"9", "9", ".", "9", "9", "9", ".", "9", "9", "9", "-", "9">>
    /\ output = Ok(MAX)

\* C5: derived check.  Every Rut a public constructor (from_str, try_from,
\* random, random_in_range, min, max) returns, and the constants MIN and MAX,
\* carry the check symbol of the modulo-11 checksum of their body.
C5_DerivedCheck ==
    /\ into_char(vd(MIN)) = RefCheckChar(num(MIN))
    /\ into_char(vd(MAX)) = RefCheckChar(num(MAX))
    /\ HoldsRut => into_char(vd(output.val)) = RefCheckChar(num(output.val))

C5_Witness ==
    /\ Returned("random_in_range")
    /\ output = Ok(Rut(10000000, "Eight"))

InsertAt(s, i, c) == SubSeq(s, 1, i) \o <<c>> \o SubSeq(s, i + 1, Len(s))
RemoveAt(s, i) == SubSeq(s, 1, i - 1) \o SubSeq(s, i + 1, Len(s))

\* C6: decoration insensitivity.  from_str(t) returns what from_str of the
\* stripped t returns; putting a '.' or a '-' in at any position of t, or
\* taking one out, does not change what from_str returns; "17.951.585-7",
\* "17951585-7" and "179515857" all give Rut(17951585, 7).
C6_DecorationInsensitive ==
    Returned("from_str") =>
        /\ Rut_from_str(SelectSeq(input, LAMBDA c : c \notin Decoration)) = output
        /\ \A i \in 0..Len(input), c \in Decoration :
                Rut_from_str(InsertAt(input, i, c)) = output
        /\ \A i \in 1..Len(input) :
                input[i] \in Decoration => Rut_from_str(RemoveAt(input, i)) = output
        /\ input \in {<<"1", "7", ".", "9", "5", "1", ".", "5", "8", "5", "-", "7">>,
                       <<"1", "7", "9", "5", "1", "5", "8", "5", "-", "7">>,
                       <<"1", "7", "9", "5", "1", "5", "8", "5", "7">>}
                => output = Ok(Rut(17951585, "Seven"))

C6_Witness ==
    /\ Returned("from_str")
    /\ input = <<"1", "7", ".", "9", "5", "1", ".", "5", "8", "5", "-", "7">>
    /\ output = Ok(Rut(17951585, "Seven"))

\* C7: case insensitivity on K.  For every legal body whose check symbol is
\* K, from_str of the body followed by 'k' and of the body followed by 'K'
\* both return Rut(body, K).
C7_LowercaseK ==
    Returned("from_str") =>
        LET s == sans(input)
            digits == SubSeq(s, 1, Len(s) - 1)
        IN  (/\ Len(s) >= 2
             /\ IsLegalNumeral(digits)
             /\ RefCheckChar(NumeralValue(DropZeros(digits))) = "K"
             /\ s[Len(s)] \in {"k", "K"})
                => output = Ok(Rut(NumeralValue(DropZeros(digits)), "K"))

C7_Witness ==
    /\ Returned("from_str")
    /\ input = <<"1", "5", "4", "4", "1", "7", "1", "5", "-", "k">>
    /\ output = Ok(Rut(15441715, "K"))

\* C8: empty input.  from_str fails with EmptyString for the empty text and
\* for every text made of '.' and '-' alone, and for no other text.
C8_EmptyInput ==
    Returned("from_str") =>
        (output = Err(EmptyString) <=> \A i \in 1..Len(input) : input[i] \in Decoration)

C8_Witness ==
    /\ Returned("from_str")
    /\ input = <<"-", ".", "-">>
    /\ output = Err(EmptyString)

\* C9: every Rut random() returns has its body in [1,000,000, 99,999,999]
\* and the check symbol of that body.
C9_RandomInLegalRange ==
    Returned("random") =>
        /\ output.ok
        /\ LegalBody(num(output.val))
        /\ into_char(vd(output.val)) = RefCheckChar(num(output.val))

\* the range holds a u32 outside [1,000,000, 99,999,999]: one of its two
\* ends is outside
AdmitsIllegalBody(range) ==
    \/ ~LegalBody(range.lo)
    \/ ~LegalBody(IF range.inclusive THEN range.hi ELSE range.hi - 1)

\* C10: random_in_range fails with OutOfRange when the range holds a body
\* outside [1,000,000, 99,999,999] (0..10, 99,999,990..200,000,000), and
\* never returns a Rut whose body is outside the legal range.
C10_RandomInRangeRejects ==
    Returned("random_in_range") =>
        /\ (~Range_is_empty(input) /\ AdmitsIllegalBody(input))
                => output = Err(OutOfRange)
        /\ output.ok => LegalBody(num(output.val))

\* C11: random draws stay in range.  For every range inside the legal range,
\* every Rut random_in_range returns has its body between the two ends of
\* the range and the check symbol of that body; a draw from
\* 10,000,000..15,000,000 lies in that closed range.
C11_RandomInRangeStaysInRange ==
    (/\ Returned("random_in_range")
     /\ LegalBody(input.lo) /\ LegalBody(input.hi)
     /\ output.ok)
        => /\ input.lo <= num(output.val)
           /\ num(output.val) <= input.hi
           /\ into_char(vd(output.val)) = RefCheckChar(num(output.val))

C11_Witness ==
    /\ Returned("random_in_range")
    /\ input = Range(10000000, 15000000, FALSE)
    /\ output = Ok(Rut(14999999, "K"))

C13_DotsGrouping ==
    (/\ Returned("format")
     /\ input[2] = "Dots"
     /\ LegalBody(num(input[1])))
        => LET n == Len(output)
               body == SubSeq(output, 1, n - 2)
               digits == SelectSeq(body, LAMBDA c : c # ".")
           IN  /\ n >= 3
               /\ output[n - 1] = "-"
               /\ output[n] = into_char(vd(input[1]))
               /\ \A i \in 1..Len(body) :
                      body[i] = "." <=> (Len(body) - i) % 4 = 3
               /\ body[1] # "."
               /\ IsNumeral(digits)
               /\ digits[1] # "0"
               /\ NumeralValue(digits) = num(input[1])
               /\ num(input[1]) = 1000000 =>
                      output = <<"1", ".", "0", "0", "0", ".", "0", "0", "0", "-", "9">>
               /\ num(input[1]) = 99999999 =>
                      output = <<"9", "9", ".", "9", "9", "9", ".", "9", "9", "9", "-", "9">>
               /\ num(input[1]) = 27388094 =>
                      output = <<"2", "7", ".", "3", "8", "8", ".", "0", "9", "4", "-", "1">>

C13_Witness ==
    /\ Returned("format")
    /\ input = <<Rut(27388094, "One"), "Dots">>
    /\ output = <<"2", "7", ".", "3", "8", "8", ".", "0", "9", "4", "-", "1">>

\* digits is the decimal text of the u32 n: decimal digits, no leading zero
\* unless n is 0, denoting n
IsDecimalOf(digits, n) ==
    /\ IsNumeral(digits)
    /\ Len(digits) > 1 => digits[1] # "0"
    /\ IF n >= 0 THEN Len(digits) <= 10 /\ NumeralValue(digits) = n
       ELSE /\ Len(digits) = 10
            /\ NumeralValue(SubSeq(digits, 1, 9)) = UDiv10(n)
            /\ DigitValue[digits[10]] = UMod10(n)

BodyLess(a, b) ==
    IF (a >= 0) = (b >= 0) THEN a < b ELSE b < 0

\* C15: Ruts are ordered by their bodies alone: a.cmp(b) is Less, Equal or
\* Greater as the body of a is below, equal to or above the body of b,
\* a < b holds exactly when the body of a is below the body of b and a > b
\* exactly when it is above, whatever the verification digits; so for
\* legal bodies b1 < b2, try_from(b1) < try_from(b2) and
\* try_from(b2) > try_from(b1).
C15_OrderedByBody ==
    /\ Returned("cmp") =>
            output = IF BodyLess(num(input[1]), num(input[2])) THEN "Less"
                     ELSE IF BodyLess(num(input[2]), num(input[1])) THEN "Greater"
                     ELSE "Equal"
    /\ Returned("lt") => (output <=> BodyLess(num(input[1]), num(input[2])))
    /\ Returned("gt") => (output <=> BodyLess(num(input[2]), num(input[1])))

\* 15441715-K is below 29718958-1, though K is above 1
C15_Witness ==
    /\ Returned("lt")
    /\ input = <<Rut(15441715, "K"), Rut(29718958, "One")>>
    /\ output = TRUE

\* C16: for two Ruts the constructors return, a == b exactly when their
\* bodies are equal, and exactly when a.cmp(b) is Equal.
C16_EqualByBody ==
    Returned("eq") =>
        /\ output <=> num(input[1]) = num(input[2])
        /\ output <=> Rut_cmp(input[1], input[2]) = "Equal"

C16_Witness ==
    /\ Returned("eq")
    /\ input = <<Rut(15441715, "K"), Rut(15441715, "K")>>
    /\ output = TRUE

\* C17, as stated: from_u32 and to_u32 are inverse bijections between the
\* 11 verification digits and 0..10: from_u32(d.to_u32()) is Ok(d) for
\* every digit d, and for every n in 0..10 from_u32(n) is Ok and its to_u32
\* is n.
C17_NumericBijection ==
    /\ Returned("to_u32") => from_u32(output) = Ok(input)
    /\ (Returned("from_u32") /\ input \in 0..10) =>
            output.ok /\ to_u32(output.val) = input

\* the canonical characters of the verification digits
CanonicalChars == DOMAIN DigitValue \cup {"K"}

\* C18: try_from of a char succeeds exactly for '0'..'9', 'K' and 'k',
\* giving the digit of that value (K for both 'K' and 'k'), and fails with
\* VerificationDigitOutOfBounds carrying the char as text for any other;
\* char::from is total and gives the canonical uppercase character;
\* try_from(char::from(d)) is d, and char::from(try_from(c)) is c for a
\* canonical c and 'K' for 'k'.
C18_CharConversions ==
    /\ Returned("try_from_char") =>
            IF input \in CanonicalChars \cup {"k"}
            THEN /\ output.ok
                 /\ IF input \in {"K", "k"} THEN output.val = "K"
                    ELSE /\ output.val # "K"
                         /\ to_u32(output.val) = DigitValue[input]
                 /\ into_char(output.val) = IF input = "k" THEN "K" ELSE input
            ELSE output = Err(VerificationDigitOutOfBounds(<<input>>))
    /\ Returned("into_char") =>
            /\ output \in CanonicalChars
            /\ try_from_char(output) = Ok(input)

C18_Witness ==
    /\ Returned("try_from_char")
    /\ input = "k"
    /\ output = Ok("K")

\* t without its '.' and '-', the other characters in their order
RECURSIVE RefStrip(_)
RefStrip(t) ==
    IF t = <<>> THEN <<>>
    ELSE IF Head(t) \in Decoration THEN RefStrip(Tail(t))
    ELSE <<Head(t)>> \o RefStrip(Tail(t))

\* C19: sans(text) is text with every '.' and every '-' removed and the
\* other characters kept in order; it returns a text for every input (it
\* has no failure), the text holds no '.' and no '-', and sans of it is
\* the same text.
C19_SansStrips ==
    Returned("sans") =>
        /\ output = RefStrip(input)
        /\ \A i \in 1..Len(output) : output[i] \notin Decoration
        /\ sans(output) = output

C19_Witness ==
    /\ Returned("sans")
    /\ input = <<"1", "7", ".", "9", "5", "1", ".", "5", "8", "5", "-", "7">>
    /\ output = <<"1", "7", "9", "5", "1", "5", "8", "5", "7">>

\* C20, as stated: no operation panics: from_str of any text, try_from and
\* VerificationDigit::new of any u32, and random_in_range of any range, an
\* empty one included, return a value or an error value.
C20_NoPanic ==
    (pc = "return" /\ op \in {"from_str", "try_from", "new", "random", "random_in_range"})
        => output # Panic /\ (output.ok \/ "err" \in DOMAIN output)

\* the display text of a failure of from_str
RefDisplay(e) ==
    IF e = EmptyString THEN "The provided string is empty"
    ELSE IF e = OutOfRange THEN "Out of range"
    ELSE IF e[1] = "NaN" THEN
        "Provided string is not a number. "
            \o (IF e[2] = "InvalidDigit" THEN "invalid digit found in string"
                ELSE IF e[2] = "Empty" THEN "cannot parse integer from empty string"
                ELSE "number too large to fit in target type")
    ELSE IF e[1] = "VerificationDigitOutOfBounds" THEN
        "Verification digit out of bounds found: " \o Joined(e[2])
    ELSE "Invalid verification digit: have " \o e[2] \o ", want " \o e[3]

\* what C21 says of a state: serialize writes the one string
\* format(Sans); deserialize of a text returns the Rut from_str returns, or
\* an error whose message is the display text of the failure of from_str
C21_State ==
    /\ Returned("serialize") => output = Rut_format(input, "Sans")
    /\ Returned("deserialize") =>
            LET parsed == Rut_from_str(input)
            IN  /\ parsed.ok => output = parsed
                /\ ~parsed.ok => output = Err(custom(RefDisplay(parsed.err)))
                /\ input = <<>> =>
                        output = Err(custom("The provided string is empty"))
                /\ input = <<"1", ".", "1", "1", "1", ".", "1", "1", "1", "-", "1">> =>
                        output = Err(custom("Invalid verification digit: have 1, want 4"))
                /\ input = <<"T", "h", "i", "s", "I", "s", "N", "o", "t", "A", "R", "u", "t">> =>
                        output = Err(custom(
                            "Provided string is not a number. invalid digit found in string"))

\* C21: serialize(r) is the string format(r, Sans); deserialize(s) is the
\* outcome of from_str(s), a failure given as an error with the failure's
\* display text; and deserialize of what serialize wrote for a Rut r with a
\* legal body is r.
C21_SerdeRoundTrip ==
    /\ []C21_State
    /\ [][(/\ Returned("serialize")
           /\ op' = "deserialize"
           /\ LegalBody(num(input)))
             => output' = Ok(input)]_vars

C21_Witness ==
    /\ Returned("deserialize")
    /\ input = <<"9", "2", "6", "3", "5", "8", "4", "3", "K">>
    /\ output = Ok(Rut(92635843, "K"))

\* C22: rut_is_valid(text) returns Ok(true) when from_str(text) succeeds and
\* Ok(false) when it fails; it returns an error for no input.
C22_IsValidIsParse ==
    Returned("rut_is_valid") =>
        /\ output.ok
        /\ output.val \in BOOLEAN
        /\ output.val <=> Rut_from_str(input).ok

C22_Witness ==
    /\ Returned("rut_is_valid")
    /\ input = <<"1", ".", "1", "1", "1", ".", "1", "1", "1", "-", "1">>
    /\ output = Ok(FALSE)

\* the Format each formatting entry point writes
EntryFormat ==
    "rut_format_sans" :> "Sans" @@ "rut_format_dash" :> "Dash"
        @@ "rut_format_dots" :> "Dots"

\* C23: rut_format_sans, rut_format_dash and rut_format_dots of a text
\* return the format, in their notation, of the Rut from_str returns for
\* the text, and when from_str fails an error that is exactly the display
\* text of the failure, never a formatted text.
C23_FormatEntryPoints ==
    (pc = "return" /\ op \in DOMAIN EntryFormat) =>
        LET parsed == Rut_from_str(input)
        IN  IF parsed.ok
            THEN output = Ok(Rut_format(parsed.val, EntryFormat[op]))
            ELSE output = Err(RefDisplay(parsed.err))

C23_Witness ==
    /\ Returned("rut_format_dash")
    /\ input = <<"1", ".", "1", "1", "1", ".", "1", "1", "1", "-", "1">>
    /\ output = Err("Invalid verification digit: have 1, want 4")

\* the body portion of a stripped text, without the sign parse::<u32> allows
BodyDigits(s) ==
    LET body == SubSeq(s, 1, Len(s) - 1)
    IN  IF body # <<>> /\ Head(body) = "+" THEN Tail(body) ELSE body

\* the numeral s denotes a number below 2^32
FitsU32(s) ==
    LET d == DropZeros(s)
    IN  \/ Len(d) <= 9
        \/ /\ Len(d) = 10
           /\ \/ NumeralValue(SubSeq(d, 1, 9)) < 429496729
              \/ NumeralValue(SubSeq(d, 1, 9)) = 429496729 /\ DigitValue[d[10]] <= 5

C25_OutOfRangeAnyLength ==
    Returned("from_str") =>
        LET s == RefStrip(input)
            body == SubSeq(s, 1, Len(s) - 1)
        IN  (Len(s) >= 2 /\ IsNumeral(body) /\ ~IsLegalNumeral(body))
                => output = Err(OutOfRange)

\* C26: for every u32 num, 0 and the legal bodies included,
\* VerificationDigit::new(num) returns a verification digit and never
\* VerificationDigitOutOfBounds: its weighted sum is at most 10 * 9 * 7, far
\* from the overflow of 32 bits, and its digit = 11 - (sum mod 11) is in
\* 1..11, never 0.
C26_ChecksumInBounds ==
    Returned("new") =>
        /\ new_sum(input) \in 0..(10 * 9 * 7)
        /\ new_sum(input) = RefSumU32(input)
        /\ new_digit(input) = 11 - (new_sum(input) % 11)
        /\ new_digit(input) \in 1..11
        /\ output.ok
        /\ output.val \in VerificationDigit

\* 4294967295, the largest u32
C26_Witness ==
    /\ Returned("new")
    /\ input = -1
    /\ new_sum(input) = 242
    /\ output = Ok("Zero")

\* C27, as stated: whenever from_str(t) succeeds, t stripped of '.' and '-'
\* is exactly 7 or 8 decimal digits with no leading zero and one character
\* of '0'..'9', 'K', 'k', and format(Sans) of the Rut returned is that
\* stripped text with a trailing 'k' in uppercase; no text with a '+', a
\* leading zero or another non-digit in its body portion is accepted.
C27_AcceptsWellFormedOnly ==
    (Returned("from_str") /\ output.ok) =>
        LET s == RefStrip(input)
            body == SubSeq(s, 1, Len(s) - 1)
            last == s[Len(s)]
        IN  /\ Len(s) \in {8, 9}
            /\ IsNumeral(body)
            /\ body[1] # "0"
            /\ last \in LegalSymbols
            /\ Rut_format(output.val, "Sans")
                    = body \o <<IF last = "k" THEN "K" ELSE last>>

\* C28, as stated: for every character c, VerificationDigit::from_str of
\* the string c succeeds exactly when VerificationDigit::try_from of the
\* char c does, with the same digit; both take 'k' as K.
C28_TextConversionsAgree ==
    (Returned("vd_from_str") /\ Len(input) = 1) =>
        /\ output.ok <=> try_from_char(input[1]).ok
        /\ output.ok => output = try_from_char(input[1])
        /\ input = <<"k">> => output = Ok("K")

\* C29, as stated: for every text, from_str of the legacy copy and from_str
\* of the crate return the same outcome: the same Rut or the same error.
C29_LegacyParsesAlike ==
    Returned("legacy_from_str") =>
        /\ output.ok <=> Rut_from_str(input).ok
        /\ output.ok => output = Rut_from_str(input)
        /\ ~output.ok => output.err[1] = Rut_from_str(input).err[1]

====
